---------------------------- MODULE Spec2Model ----------------------------
(***************************************************************************)
(* A model of node-mrcool (src/MrCool.js): the MrCoolAPIConnection object  *)
(* (handshake, subscription, streaming socket, command encoding) and the   *)
(* MrCoolHVAC device objects it keeps in its registry `hvacs`.             *)
(***************************************************************************)
EXTENDS Integers, Sequences, FiniteSets, TLC

(***************************************************************************)
(* Bounds of the model                                                     *)
(***************************************************************************)
\* WebSocket objects created on one connection object in the course of a
\* behaviour
MaxSockets == 1
\* subscribeToHVACs calls in flight at the same time
MaxPending == 2
\* commands built between two subscribeToHVACs calls
MaxCommands == 2

(***************************************************************************)
(* Program constants (src/MrCool.js:12-15)                                 *)
(***************************************************************************)
DEFAULT_POWER == "off"
DEFAULT_MODE == "auto"
DEFAULT_FAN == "auto"
DEFAULT_TEMPERATURE == 75

\* the JavaScript value `undefined` of a field that was never assigned
Undefined == "undefined"
\* #ws before any WebSocket was created (#ws is otherwise an index into sockets)
NoSocket == 0

(***************************************************************************)
(* Value domains the inputs are drawn from                                 *)
(***************************************************************************)
Powers == {"on", "off"}
Modes == {"auto", "cool"}
FanSpeeds == {"auto", "high"}
Temperatures == {70, 75}
\* hardware addresses: m1 and m2 belong to the account, m3 does not
AccountMacs == {"m1", "m2"}
Macs == AccountMacs \cup {"m3"}

(***************************************************************************)
(* class MrCoolHVAC                                                        *)
(***************************************************************************)
\* constructor: identity from the arguments, state from the field defaults
NewHVAC(macAddress, deviceName, applianceID, fwVersion) ==
    [ macAddress |-> macAddress,
      deviceName |-> deviceName,
      applianceID |-> applianceID,
      fwVersion |-> fwVersion,
      power |-> DEFAULT_POWER,
      temperature |-> DEFAULT_TEMPERATURE,
      mode |-> DEFAULT_MODE,
      fanSpeed |-> DEFAULT_FAN,
      roomTemperature |-> DEFAULT_TEMPERATURE ]

updateStateKeepsFan(hvac, power, temperature, mode, fanSpeed) ==
    [ hvac EXCEPT !.power = power, !.temperature = temperature,
                  !.mode = mode ]

updateState(hvac, power, temperature, mode, fanSpeed) ==
    [ hvac EXCEPT !.power = power, !.temperature = temperature,
                  !.mode = mode, !.fanSpeed = fanSpeed ]

updateRoomTemperatureAsTarget(hvac, roomTemperature) ==
    [ hvac EXCEPT !.temperature = roomTemperature ]

updateRoomTemperature(hvac, roomTemperature) ==
    [ hvac EXCEPT !.roomTemperature = roomTemperature ]

\* the (performedAction, performedActionValue) pairs that setMode,
\* setFanSpeed, setTemperature, powerOn and powerOff hand to sendCommand
ModeCommands == { <<"mode", v>> : v \in Modes }
FanCommands == { <<"fanspeed", v>> : v \in FanSpeeds }
TemperatureCommands == { <<"temp", v>> : v \in Temperatures }
PowerCommands == { <<"power", "on">>, <<"power", "off">> }
Commands == ModeCommands \cup FanCommands \cup TemperatureCommands
                \cup PowerCommands
\* the commands the caller issues while the connection is exercised as a whole
SomeCommands == { <<"power", "on">>, <<"temp", 70>> }

(***************************************************************************)
(* Command codec: #buildCommand and #buildCommandPayload                   *)
(*                                                                         *)
(* A slot that holds either a value or the blank '' is kept as <<value>>   *)
(* or <<>>, because the value may be a number (mid, ts, a temperature)     *)
(* where the blank is a string.                                            *)
(***************************************************************************)
Blank == <<>>
Val(x) == <<x>>

\* the clock read by Math.round(Date.now() / 1000)
Clock == {1700}

modeSlotIgnoresIsAction(isAction, performedAction, performedValue, mode) ==
    IF performedAction = "mode" THEN performedValue ELSE mode

\* 'mode': (isAction && performedAction === 'mode') ? performedValue : mode
modeSlot(isAction, performedAction, performedValue, mode) ==
    IF isAction /\ performedAction = "mode" THEN performedValue ELSE mode

\* 'temp': (isAction && performedAction === 'temp') ? performedValue : temp
tempSlot(isAction, performedAction, performedValue, temp) ==
    IF isAction /\ performedAction = "temp" THEN performedValue ELSE temp

powerSlotOnModeChange(isAction, performedAction, performedValue, power) ==
    IF isAction /\ performedAction = "mode" THEN performedValue ELSE power

\* 'power': (isAction && performedAction === 'power') ? performedValue : power
powerSlot(isAction, performedAction, performedValue, power) ==
    IF isAction /\ performedAction = "power" THEN performedValue ELSE power

\* 'swing': both branches of the conditional are 'auto'
swingSlot(isAction, performedAction, performedValue) ==
    IF isAction /\ (performedAction = "mode" \/ performedAction = "temp"
                    \/ (performedAction = "power" /\ performedValue = "off"))
    THEN "auto" ELSE "auto"

\* 'fanspeed': fanspeed  (never overridden)
fanspeedSlot(isAction, performedAction, performedValue, fanspeed) ==
    fanspeed

\* 'fanRule'
fanRuleSlot(isAction, performedAction, performedValue) ==
    IF isAction
    THEN (IF performedAction = "power" /\ performedValue = "on"
          THEN "vanish" ELSE "default")
    ELSE ""

buildCommand(temp, power, fanspeed, mode, macAddress, applianceID, isAction, performedAction, performedValue, mid, deviceTypeVersion, fwVersion, now) ==
    [ schTS |-> "", tempRange |-> "", turbo |-> "off",
      mid |-> IF isAction THEN Val(mid) ELSE Blank,
      mode |-> modeSlot(isAction, performedAction, performedValue, mode),
      modeValue |-> "",
      temp |-> tempSlot(isAction, performedAction, performedValue, temp),
      tempValue |-> "",
      power |-> powerSlot(isAction, performedAction, performedValue, power),
      swing |-> swingSlot(isAction, performedAction, performedValue),
      fanspeed |-> fanspeedSlot(isAction, performedAction, performedValue,
                                fanspeed),
      scheduleID |-> "",
      macAddress |-> macAddress,
      applianceID |-> applianceID,
      performedAction |-> IF isAction THEN performedAction ELSE "",
      performedActionValue |-> IF isAction THEN Val(performedValue) ELSE Blank,
      actualPower |-> power,
      modeRule |-> "",
      tempRule |-> IF isAction THEN "default" ELSE "",
      swingRule |-> IF isAction THEN "default" ELSE "",
      fanRule |-> fanRuleSlot(isAction, performedAction, performedValue),
      isSchedule |-> FALSE, aSrc |-> "WEB",
      ts |-> IF isAction THEN Val(now) ELSE Blank,
      deviceTypeVersion |-> IF isAction THEN deviceTypeVersion ELSE "",
      deviceType |-> "BREEZ-I", light |-> "", rStatus |-> "",
      fwVersion |-> IF isAction THEN fwVersion ELSE "",
      exe |-> "", isRunning |-> FALSE ]

\* the frame of #buildCommandPayload (the object handed to JSON.stringify),
\* built with the counter value `count` read by `this.#commandCount++`
buildCommandPayload(hvac, performedAction, performedActionValue, count, mid, now) ==
    [ H |-> "devicesactionhub",
      M |-> "broadcastActionAC",
      A |-> << buildCommand(hvac.temperature, hvac.power, hvac.fanSpeed,
                   hvac.mode, hvac.macAddress, hvac.applianceID, TRUE,
                   performedAction, performedActionValue, mid, "BI03",
                   hvac.fwVersion, now),
               buildCommand(hvac.temperature, hvac.power, hvac.fanSpeed,
                   hvac.mode, hvac.macAddress, hvac.applianceID, FALSE,
                   performedAction, performedActionValue, mid, "BI03",
                   hvac.fwVersion, now) >>,
      I |-> count ]

(***************************************************************************)
(* What the service answers                                                *)
(***************************************************************************)
\* one entry of deviceInfo.data.listDevices
SnapshotEntry(mac) ==
    IF mac = "m1"
    THEN [ macAddress |-> "m1", deviceName |-> "Den", applianceID |-> 11,
           fwVersion |-> "1.0.1",
           latestAction |-> [ power |-> "on", temp |-> 70, mode |-> "cool",
                              fanspeed |-> "high" ],
           latEnv |-> [ temp |-> 72 ] ]
    ELSE [ macAddress |-> mac, deviceName |-> "Loft", applianceID |-> 12,
           fwVersion |-> "1.0.2",
           latestAction |-> [ power |-> "on", temp |-> 70, mode |-> "auto",
                              fanspeed |-> "high" ],
           latEnv |-> [ temp |-> 68 ] ]

\* the answers of /api/device/initsubscription: a JSON body with a device
\* list, a JSON body with a service-reported error and no data, or no JSON
\* body at all (fetch rejects, the body does not parse).  `error` is "" when
\* the body has no truthy `error`.
InfoResponses ==
    { [ kind |-> "json", error |-> "", hasData |-> TRUE,
        listDevices |-> << SnapshotEntry("m1"), SnapshotEntry("m2") >> ],
      [ kind |-> "json", error |-> "SessionExpired", hasData |-> FALSE,
        listDevices |-> << >> ],
      [ kind |-> "throws", error |-> "", hasData |-> FALSE,
        listDevices |-> << >> ] }

\* the macAddresses arrays the caller subscribes with
Requests == { {"m1", "m3"}, {"m1", "m2"} }

\* inbound frames (after JSON.parse): data.M is an array of method records
ActionPayload(mac) ==
    [ macAddress |-> mac, power |-> "off", temp |-> 68, mode |-> "heat",
      fanspeed |-> "low" ]
HeartBeatPayload(mac) ==
    [ macAddress |-> mac, roomTemperature |-> 66 ]
\* the JSON value null as a payload
Null == [ isNull |-> TRUE ]
FrameMacs == {"m1", "m3"}
Frames ==
    { [ M |-> << [ M |-> "actionReceivedAC", A |-> << ActionPayload(m) >> ] >> ]
        : m \in FrameMacs }
    \cup
    { [ M |-> << [ M |-> "HeartBeatPerformed",
                   A |-> << HeartBeatPayload(m) >> ] >> ] : m \in FrameMacs }
    \cup
    { [ M |-> << [ M |-> "keepAlive", A |-> << HeartBeatPayload("m1") >> ] >> ],
      [ M |-> << [ M |-> "actionReceivedAC", A |-> << Null >> ] >> ],
      [ M |-> << >> ] }

\* what the handshake obtains from the service: the cookies of the login
\* response, the session id of /home/index, the negotiated connection token
Cookies == {"cookie1"}
SessionIDs == {"session1"}
ConnectionTokens == {"token1"}

\* a Device the caller built itself with `new MrCoolHVAC(...)`
CallerHVAC == NewHVAC("m3", "Spare", 13, "0.0.0")

(***************************************************************************)
(* State of one MrCoolAPIConnection                                        *)
(***************************************************************************)
VARIABLES
    hvacs,               \* the registry: a sequence of MrCoolHVAC states
    commandCount,        \* #commandCount
    applicationCookies,  \* #applicationCookies
    sessionID,           \* #sessionID (#userID and #accessToken are set with it)
    socketInfo,          \* #socketInfo.ConnectionToken, Undefined without #socketInfo
    agent,               \* #agent
    ws,                  \* #ws: index into sockets, or NoSocket
    sockets,             \* every WebSocket created so far
    est,                 \* the establishConnection call in flight
    estResolved,         \* some establishConnection call has resolved
    subs,                \* the subscribeToHVACs calls in flight
    outbound,            \* the command the last step handed to #ws.send
    sentI,               \* 'I' of the commands built since the last subscribe call
    last,                \* the operation of the last step and how it ended
    cbLog                \* the callbacks invoked by the last step

vars == << hvacs, commandCount, applicationCookies, sessionID, socketInfo,
           agent, ws, sockets, est, estResolved, subs, outbound,
           sentI, last, cbLog >>

sessionVars == << applicationCookies, sessionID, socketInfo, agent >>
estVars == << est, estResolved >>
cmdVars == << commandCount, sentI >>

NoCommand == [ built |-> FALSE ]
Idle == [ pc |-> "idle" ]

\* op: the step; result: how the call or handler stands after it; value: the
\* value a rejected promise carries
Op(op, result, value) == [ op |-> op, result |-> result, value |-> value ]

Init ==
    /\ hvacs = << >>
    /\ commandCount = 0
    /\ applicationCookies = Undefined
    /\ sessionID = Undefined
    /\ socketInfo = Undefined
    /\ agent = Undefined
    /\ ws = NoSocket
    /\ sockets = << >>
    /\ est = Idle
    /\ estResolved = FALSE
    /\ subs = << >>
    /\ outbound = NoCommand
    /\ sentI = << >>
    /\ last = Op("new", "returned", "")
    /\ cbLog = << >>

(***************************************************************************)
(* establishConnection: login, session resolution, socket negotiation.     *)
(* The caller makes one call at a time.  The `agent` argument is accepted  *)
(* and never stored.                                                       *)
(***************************************************************************)
Agents == {"none", "proxy"}

establishConnection(a) ==
    /\ est.pc = "idle"
    \* #getApplicationCookies is called and awaits the login POST
    /\ est' = [ pc |-> "login" ]
    /\ last' = Op("establishConnection", "pending", "")
    /\ cbLog' = << >>
    /\ outbound' = NoCommand
    /\ UNCHANGED << hvacs, sessionVars, ws, sockets, estResolved, subs,
                    cmdVars >>

loginDoneRetries(outcome) ==
    /\ est.pc = "login"
    /\ cbLog' = << >>
    /\ outbound' = NoCommand
    /\ UNCHANGED << hvacs, sessionID, socketInfo, agent, ws, sockets,
                    estResolved, subs, cmdVars >>
    /\ IF outcome \notin {"noCookies", "fetchFails"}
       THEN /\ applicationCookies' = outcome
            /\ est' = [ est EXCEPT !.pc = "session" ]
            /\ last' = Op("loginDone", "pending", "")
       ELSE /\ est' = est
            /\ last' = Op("loginDone", "pending", "")
            /\ UNCHANGED applicationCookies

\* the login POST answers; #getCookiesFromResponse reads its set-cookie
\* headers (a response without any makes cookieArray.map throw)
loginDone(outcome) ==
    /\ est.pc = "login"
    /\ cbLog' = << >>
    /\ outbound' = NoCommand
    /\ UNCHANGED << hvacs, sessionID, socketInfo, agent, ws, sockets,
                    estResolved, subs, cmdVars >>
    /\ \/ /\ outcome \notin {"noCookies", "fetchFails"}
          /\ applicationCookies' = outcome
          \* #getAppUserAndSessionId is called and awaits /home/index
          /\ est' = [ est EXCEPT !.pc = "session" ]
          /\ last' = Op("loginDone", "pending", "")
       \/ /\ outcome = "noCookies"
          /\ est' = Idle
          /\ last' = Op("loginDone", "rejected", "TypeError")
          /\ UNCHANGED applicationCookies
       \/ /\ outcome = "fetchFails"
          /\ est' = Idle
          /\ last' = Op("loginDone", "rejected", "FetchError")
          /\ UNCHANGED applicationCookies

\* /home/index answers; the hidden inputs are parsed and decrypted
sessionDone(outcome) ==
    /\ est.pc = "session"
    /\ cbLog' = << >>
    /\ outbound' = NoCommand
    /\ UNCHANGED << hvacs, applicationCookies, socketInfo, agent, ws,
                    sockets, estResolved, subs, cmdVars >>
    /\ \/ /\ outcome # "throws"
          /\ sessionID' = outcome
          \* #negotiateSocketInfo is called and awaits /signalr/negotiate
          /\ est' = [ est EXCEPT !.pc = "negotiate" ]
          /\ last' = Op("sessionDone", "pending", "")
       \/ /\ outcome = "throws"
          /\ est' = Idle
          /\ last' = Op("sessionDone", "rejected", "TypeError")
          /\ UNCHANGED sessionID

\* /signalr/negotiate answers
negotiateDone(outcome) ==
    /\ est.pc = "negotiate"
    /\ cbLog' = << >>
    /\ outbound' = NoCommand
    /\ UNCHANGED << hvacs, applicationCookies, sessionID, agent, ws,
                    sockets, subs, cmdVars >>
    /\ est' = Idle
    /\ \/ /\ outcome # "throws"
          /\ socketInfo' = outcome
          /\ estResolved' = TRUE
          /\ last' = Op("negotiateDone", "resolved", "")
       \/ /\ outcome = "throws"
          /\ last' = Op("negotiateDone", "rejected", "FetchError")
          /\ UNCHANGED << socketInfo, estResolved >>

(***************************************************************************)
(* subscribeToHVACs and #connect                                           *)
(***************************************************************************)
Remove(seq, i) == SubSeq(seq, 1, i - 1) \o SubSeq(seq, i + 1, Len(seq))

\* the MrCoolHVAC built for one snapshot entry
seedHVAC(device) ==
    updateRoomTemperature(
        updateState(NewHVAC(device.macAddress, device.deviceName,
                            device.applianceID, device.fwVersion),
                    device.latestAction.power, device.latestAction.temp,
                    device.latestAction.mode, device.latestAction.fanspeed),
        device.latEnv.temp)

Wanted(listDevices, macAddresses) ==
    SelectSeq(listDevices, LAMBDA device : device.macAddress \in macAddresses)

\* the for-loop: one push per snapshot entry whose address was requested
extractHVACs(registry, listDevices, macAddresses) ==
    registry \o [ i \in 1..Len(Wanted(listDevices, macAddresses)) |->
                    seedHVAC(Wanted(listDevices, macAddresses)[i]) ]

\* new WebSocket(connectUrl, connectPayload).  `earlier` tells the sockets
\* a behaviour starts with from the ones opened in its course.
NewSocket ==
    [ readyState |-> "CONNECTING",
      connectionToken |-> socketInfo,
      cookie |-> applicationCookies,
      start |-> "none",
      timer |-> FALSE,
      promise |-> "pending",
      earlier |-> FALSE ]

\* the sockets opened in the course of the behaviour
OpenedSince(socks) == SelectSeq(socks, LAMBDA socket : ~socket.earlier)

connectClosesEarlier(socks) ==
    Append([ s \in DOMAIN socks |->
               [ socks[s] EXCEPT !.readyState = "CLOSED" ] ], NewSocket)

\* this.#ws = new WebSocket(...): the socket #ws referred to is neither
\* closed nor stripped of its listeners and its interval
connect(socks) == Append(socks, NewSocket)

\* clears the registry and the counter, then awaits #getAccessCredentials
subscribeToHVACs(macAddresses) ==
    /\ Len(subs) < MaxPending
    /\ hvacs' = << >>
    /\ commandCount' = 0
    /\ sentI' = << >>
    /\ subs' = Append(subs, [ macAddresses |-> macAddresses,
                              pc |-> "credentials" ])
    /\ last' = Op("subscribeToHVACs", "pending", "")
    /\ cbLog' = << >>
    /\ outbound' = NoCommand
    /\ UNCHANGED << sessionVars, ws, sockets, estVars >>

\* /cAcc answers; #getDeviceInfo is called and awaits the snapshot
credentialsDone(i, outcome) ==
    /\ i \in DOMAIN subs
    /\ subs[i].pc = "credentials"
    /\ cbLog' = << >>
    /\ outbound' = NoCommand
    /\ UNCHANGED << hvacs, sessionVars, ws, sockets, estVars, cmdVars >>
    /\ \/ /\ outcome = "ok"
          /\ subs' = [ subs EXCEPT ![i].pc = "deviceInfo" ]
          /\ last' = Op("credentialsDone", "pending", "")
       \/ /\ outcome = "throws"
          /\ subs' = Remove(subs, i)
          /\ last' = Op("credentialsDone", "rejected", "FetchError")

snapshotFailedNever(deviceInfo) == FALSE

\* if (deviceInfo.error)
snapshotFailed(deviceInfo) == deviceInfo.error # ""

connectNeverThrows == FALSE

\* #connect reads this.#socketInfo.ConnectionToken: a TypeError on an
\* undefined #socketInfo, before any WebSocket is created
connectThrows == socketInfo = Undefined

\* the snapshot answers: reject on deviceInfo.error, else fill the registry
\* and run #connect
deviceInfoDone(i, deviceInfo) ==
    /\ i \in DOMAIN subs
    /\ subs[i].pc = "deviceInfo"
    /\ subs' = Remove(subs, i)
    /\ cbLog' = << >>
    /\ outbound' = NoCommand
    /\ UNCHANGED << sessionVars, estVars, cmdVars >>
    /\ IF deviceInfo.kind = "throws"
       THEN /\ last' = Op("deviceInfoDone", "rejected", "FetchError")
            /\ UNCHANGED << hvacs, ws, sockets >>
       ELSE IF snapshotFailed(deviceInfo)
       THEN /\ last' = Op("deviceInfoDone", "rejected", deviceInfo.error)
            /\ UNCHANGED << hvacs, ws, sockets >>
       ELSE IF ~deviceInfo.hasData
       THEN \* deviceInfo.data.listDevices of an undefined data
            /\ last' = Op("deviceInfoDone", "rejected", "TypeError")
            /\ UNCHANGED << hvacs, ws, sockets >>
       ELSE /\ hvacs' = extractHVACs(hvacs, deviceInfo.listDevices,
                                     subs[i].macAddresses)
            /\ IF connectThrows
               THEN /\ last' = Op("deviceInfoDone", "rejected", "TypeError")
                    /\ UNCHANGED << ws, sockets >>
               ELSE /\ Len(OpenedSince(sockets)) < MaxSockets
                    /\ sockets' = connect(sockets)
                    /\ ws' = Len(sockets) + 1
                    /\ last' = Op("deviceInfoDone", "pending", "")

(***************************************************************************)
(* The handlers #connect attaches to a socket, #startSocket, #pingSocket   *)
(***************************************************************************)
Callback(cb, arg) == [ cb |-> cb, arg |-> arg ]

\* the 'open' listeners: #startSocket is called (and awaits /signalr/start),
\* then the promise returned by #connect resolves
wsOpen(s) ==
    /\ s \in DOMAIN sockets
    /\ sockets[s].readyState = "CONNECTING"
    /\ sockets' = [ sockets EXCEPT ![s].readyState = "OPEN",
                                   ![s].start = "fetching",
                                   ![s].promise = "resolved" ]
    /\ last' = Op("wsOpen", "resolved", "")
    /\ cbLog' = << >>
    /\ outbound' = NoCommand
    /\ UNCHANGED << hvacs, sessionVars, ws, estVars, subs, cmdVars >>

\* /signalr/start answers: the ping interval is set; a failed fetch rejects
\* the promise of #startSocket, which nothing awaits
startDone(s, outcome) ==
    /\ s \in DOMAIN sockets
    /\ sockets[s].start = "fetching"
    /\ cbLog' = << >>
    /\ outbound' = NoCommand
    /\ UNCHANGED << hvacs, sessionVars, ws, estVars, subs, cmdVars >>
    /\ \/ /\ outcome = "ok"
          /\ sockets' = [ sockets EXCEPT ![s].start = "done",
                                         ![s].timer = TRUE ]
          /\ last' = Op("startDone", "resolved", "")
       \/ /\ outcome = "throws"
          /\ sockets' = [ sockets EXCEPT ![s].start = "failed" ]
          /\ last' = Op("startDone", "unhandledRejection", "FetchError")

pingTickStopsTimer(s, outcome) ==
    /\ s \in DOMAIN sockets
    /\ sockets[s].timer
    /\ outbound' = NoCommand
    /\ UNCHANGED << hvacs, sessionVars, ws, estVars, subs, cmdVars >>
    /\ \/ /\ outcome = "ok"
          /\ last' = Op("pingTick", "returned", "")
          /\ cbLog' = << >>
          /\ UNCHANGED sockets
       \/ /\ outcome = "throws"
          /\ last' = Op("pingTick", "returned", "FetchError")
          /\ cbLog' = << Callback("error", "FetchError") >>
          /\ sockets' = [ sockets EXCEPT ![s].timer = FALSE ]

\* the interval fires: #pingSocket; its failure goes to the error callback
pingTick(s, outcome) ==
    /\ s \in DOMAIN sockets
    /\ sockets[s].timer
    /\ outbound' = NoCommand
    /\ UNCHANGED << hvacs, sessionVars, ws, sockets, estVars, subs, cmdVars >>
    /\ \/ /\ outcome = "ok"
          /\ last' = Op("pingTick", "returned", "")
          /\ cbLog' = << >>
       \/ /\ outcome = "throws"
          /\ last' = Op("pingTick", "returned", "FetchError")
          /\ cbLog' = << Callback("error", "FetchError") >>

\* the 'error' listener; the transport closes the socket after an error
wsError(s) ==
    /\ s \in DOMAIN sockets
    /\ sockets[s].readyState \in {"CONNECTING", "OPEN"}
    /\ sockets' = [ sockets EXCEPT ![s].readyState = "CLOSING" ]
    /\ last' = Op("wsError", "returned", "")
    /\ outbound' = NoCommand
    /\ cbLog' = << Callback("error", "TransportError") >>
    /\ UNCHANGED << hvacs, sessionVars, ws, estVars, subs, cmdVars >>

wsCloseSilent(s) ==
    /\ s \in DOMAIN sockets
    /\ sockets[s].readyState \in {"OPEN", "CLOSING"}
    /\ sockets' = [ sockets EXCEPT ![s].readyState = "CLOSED" ]
    /\ last' = Op("wsClose", "returned", "")
    /\ outbound' = NoCommand
    /\ cbLog' = << >>
    /\ UNCHANGED << hvacs, sessionVars, ws, estVars, subs, cmdVars >>

\* the 'close' listener
wsClose(s) ==
    /\ s \in DOMAIN sockets
    /\ sockets[s].readyState \in {"OPEN", "CLOSING"}
    /\ sockets' = [ sockets EXCEPT ![s].readyState = "CLOSED" ]
    /\ last' = Op("wsClose", "returned", "")
    /\ outbound' = NoCommand
    /\ cbLog' = << Callback("error", "Connection Closed.") >>
    /\ UNCHANGED << hvacs, sessionVars, ws, estVars, subs, cmdVars >>

\* the test that makes a frame actionable
Actionable(data) ==
    /\ Len(data.M) > 0
    /\ data.M[1].M # ""
    /\ Len(data.M[1].A) > 0

applyActionReceivedToAll(registry, status) ==
    [ index \in DOMAIN registry |->
        updateState(registry[index], status.power, status.temp,
                    status.mode, status.fanspeed) ]

\* case 'actionReceivedAC': the forEach over the registry
applyActionReceived(registry, status) ==
    [ index \in DOMAIN registry |->
        IF registry[index].macAddress = status.macAddress
        THEN updateState(registry[index], status.power, status.temp,
                         status.mode, status.fanspeed)
        ELSE registry[index] ]

\* case 'HeartBeatPerformed': the forEach over the registry
applyHeartBeat(registry, status) ==
    [ index \in DOMAIN registry |->
        IF registry[index].macAddress = status.macAddress
        THEN updateRoomTemperature(registry[index], status.roomTemperature)
        ELSE registry[index] ]

\* const method = data.M[0].M
firstMethod(data) == data.M[1].M

lastStatus(data) == data.M[1].A[Len(data.M[1].A)]

\* const status = data.M[0].A[0]
firstStatus(data) == data.M[1].A[1]

\* the 'message' listener.  A null payload makes `status.macAddress` throw
\* in the first turn of the forEach (and `status.roomTemperature` throw
\* after a forEach over an empty registry).
wsMessage(s, data) ==
    /\ s \in DOMAIN sockets
    /\ sockets[s].readyState = "OPEN"
    /\ outbound' = NoCommand
    /\ UNCHANGED << sessionVars, ws, sockets, estVars, subs, cmdVars >>
    /\ IF ~Actionable(data)
       THEN /\ last' = Op("wsMessage", "returned", "")
            /\ UNCHANGED hvacs
            /\ cbLog' = << >>
       ELSE LET method == firstMethod(data)
                status == firstStatus(data)
            IN  CASE method = "actionReceivedAC" ->
                       IF status = Null /\ hvacs # << >>
                       THEN /\ last' = Op("wsMessage", "threw", "TypeError")
                            /\ UNCHANGED hvacs
                            /\ cbLog' = << >>
                       ELSE /\ last' = Op("wsMessage", "returned", "")
                            /\ hvacs' = applyActionReceived(hvacs, status)
                            /\ cbLog' = << Callback("command", status) >>
                  [] method = "HeartBeatPerformed" ->
                       IF status = Null
                       THEN /\ last' = Op("wsMessage", "threw", "TypeError")
                            /\ UNCHANGED hvacs
                            /\ cbLog' = << >>
                       ELSE /\ last' = Op("wsMessage", "returned", "")
                            /\ hvacs' = applyHeartBeat(hvacs, status)
                            /\ cbLog' = << Callback("temperature",
                                                    status.roomTemperature) >>
                  [] OTHER ->
                       /\ last' = Op("wsMessage", "returned", "")
                       /\ UNCHANGED hvacs
                       /\ cbLog' = << >>

(***************************************************************************)
(* sendCommand                                                             *)
(***************************************************************************)
Registered == { hvacs[i] : i \in DOMAIN hvacs }

postIncrementForgotten(count) == count

\* the value `this.#commandCount++` leaves in the counter
postIncrement(count) == count + 1

sendAcknowledgedAlways(readyState, accepted) == TRUE

\* the transport calls the callback of send without an error: the socket is
\* open and the frame was written (send throws on a connecting socket and
\* reports an error on a closing or closed one)
sendAcknowledged(readyState, accepted) == readyState = "OPEN" /\ accepted

sendCommandOptimistic(hvac, performedAction, performedActionValue, now, accepted) ==
    /\ cbLog' = << >>
    /\ UNCHANGED << sessionVars, ws, sockets, estVars, subs >>
    /\ IF ws = NoSocket
       THEN /\ last' = Op("sendCommand", "rejected", "TypeError")
            /\ outbound' = NoCommand
            /\ UNCHANGED << hvacs, cmdVars >>
       ELSE /\ commandCount < MaxCommands
            /\ commandCount' = postIncrement(commandCount)
            /\ hvacs' = [ i \in DOMAIN hvacs |->
                  IF hvacs[i].macAddress # hvac.macAddress THEN hvacs[i]
                  ELSE IF performedAction = "power"
                  THEN [ hvacs[i] EXCEPT !.power = performedActionValue ]
                  ELSE IF performedAction = "temp"
                  THEN [ hvacs[i] EXCEPT !.temperature = performedActionValue ]
                  ELSE IF performedAction = "mode"
                  THEN [ hvacs[i] EXCEPT !.mode = performedActionValue ]
                  ELSE [ hvacs[i] EXCEPT !.fanSpeed = performedActionValue ] ]
            /\ outbound' = [ built |-> TRUE,
                            hvac |-> hvac,
                            performedAction |-> performedAction,
                            performedActionValue |-> Val(performedActionValue),
                            payload |-> buildCommandPayload(hvac,
                                performedAction, performedActionValue,
                                commandCount, sessionID, now) ]
            /\ sentI' = Append(sentI, outbound'.payload.I)
            /\ IF sendAcknowledged(sockets[ws].readyState, accepted)
               THEN last' = Op("sendCommand", "resolved", "")
               ELSE last' = Op("sendCommand", "rejected", "SendError")

\* this.#ws.send(this.#buildCommandPayload(...), callback): the receiver
\* #ws is read first (undefined: TypeError, nothing built), then the
\* payload is built, then the transport accepts or refuses it
sendCommand(hvac, performedAction, performedActionValue, now, accepted) ==
    /\ cbLog' = << >>
    /\ UNCHANGED << hvacs, sessionVars, ws, sockets, estVars, subs >>
    /\ IF ws = NoSocket
       THEN /\ last' = Op("sendCommand", "rejected", "TypeError")
            /\ outbound' = NoCommand
            /\ UNCHANGED cmdVars
       ELSE /\ commandCount < MaxCommands
            /\ commandCount' = postIncrement(commandCount)
            /\ outbound' = [ built |-> TRUE,
                            hvac |-> hvac,
                            performedAction |-> performedAction,
                            performedActionValue |-> Val(performedActionValue),
                            payload |-> buildCommandPayload(hvac,
                                performedAction, performedActionValue,
                                commandCount, sessionID, now) ]
            /\ sentI' = Append(sentI, outbound'.payload.I)
            /\ IF sendAcknowledged(sockets[ws].readyState, accepted)
               THEN last' = Op("sendCommand", "resolved", "")
               ELSE last' = Op("sendCommand", "rejected", "SendError")

(***************************************************************************)
(* The connection object driven by its caller, the service and the socket. *)
(* Every operation and handler takes part; the caller, the service and the *)
(* socket draw from the smaller input sets.                                *)
(***************************************************************************)
SomeFrames ==
    { [ M |-> << [ M |-> "actionReceivedAC",
                   A |-> << ActionPayload("m1") >> ] >> ],
      [ M |-> << [ M |-> "HeartBeatPerformed",
                   A |-> << HeartBeatPayload("m3") >> ] >> ],
      [ M |-> << >> ] }

Next ==
    \/ \E a \in Agents : establishConnection(a)
    \/ \E outcome \in Cookies \cup {"noCookies", "fetchFails"} :
            loginDone(outcome)
    \/ \E outcome \in SessionIDs \cup {"throws"} : sessionDone(outcome)
    \/ \E outcome \in ConnectionTokens \cup {"throws"} :
            negotiateDone(outcome)
    \/ \E macAddresses \in Requests : subscribeToHVACs(macAddresses)
    \/ \E i \in DOMAIN subs, outcome \in {"ok", "throws"} :
            credentialsDone(i, outcome)
    \/ \E i \in DOMAIN subs, deviceInfo \in InfoResponses :
            deviceInfoDone(i, deviceInfo)
    \/ \E s \in DOMAIN sockets : wsOpen(s)
    \/ \E s \in DOMAIN sockets, outcome \in {"ok", "throws"} :
            startDone(s, outcome)
    \/ \E s \in DOMAIN sockets, outcome \in {"ok", "throws"} :
            pingTick(s, outcome)
    \/ \E s \in DOMAIN sockets : wsError(s)
    \/ \E s \in DOMAIN sockets : wsClose(s)
    \/ \E s \in DOMAIN sockets, data \in SomeFrames : wsMessage(s, data)
    \/ \E hvac \in Registered \cup {CallerHVAC}, c \in SomeCommands,
          now \in Clock, accepted \in BOOLEAN :
            sendCommand(hvac, c[1], c[2], now, accepted)

Spec == Init /\ [][Next]_vars

(***************************************************************************)
(* The registry: subscriptions, inbound frames and commands, starting with *)
(* or without an established session, over all requests and frames.        *)
(***************************************************************************)
InitEstablished ==
    /\ hvacs = << >>
    /\ commandCount = 0
    /\ applicationCookies \in Cookies
    /\ sessionID \in SessionIDs
    /\ socketInfo \in ConnectionTokens
    /\ agent = Undefined
    /\ ws = NoSocket
    /\ sockets = << >>
    /\ est = Idle
    /\ estResolved = TRUE
    /\ subs = << >>
    /\ outbound = NoCommand
    /\ sentI = << >>
    /\ last = Op("negotiateDone", "resolved", "")
    /\ cbLog = << >>

RegistryNext ==
    \/ \E macAddresses \in Requests : subscribeToHVACs(macAddresses)
    \/ \E i \in DOMAIN subs, outcome \in {"ok", "throws"} :
            credentialsDone(i, outcome)
    \/ \E i \in DOMAIN subs, deviceInfo \in InfoResponses :
            deviceInfoDone(i, deviceInfo)
    \/ \E s \in DOMAIN sockets : wsOpen(s)
    \/ \E s \in DOMAIN sockets, data \in Frames : wsMessage(s, data)
    \/ \E hvac \in Registered \cup {CallerHVAC}, c \in SomeCommands,
          now \in Clock, accepted \in BOOLEAN :
            sendCommand(hvac, c[1], c[2], now, accepted)

SpecRegistry == (Init \/ InitEstablished) /\ [][RegistryNext]_vars

(***************************************************************************)
(* The command codec: sendCommand for every command on every Device state, *)
(* on a connection whose socket is open.                                   *)
(***************************************************************************)
AllHVACs ==
    { updateRoomTemperature(
          updateState(NewHVAC("m1", "Den", 11, "1.0.1"), p, t, m, f), r) :
        p \in Powers, t \in Temperatures, m \in Modes, f \in FanSpeeds,
        r \in Temperatures }

OpenSocket ==
    [ readyState |-> "OPEN", connectionToken |-> socketInfo,
      cookie |-> applicationCookies, start |-> "done", timer |-> TRUE,
      promise |-> "resolved", earlier |-> TRUE ]

InitCodec ==
    /\ hvacs \in { << h >> : h \in AllHVACs }
    /\ commandCount = 0
    /\ applicationCookies \in Cookies
    /\ sessionID \in SessionIDs
    /\ socketInfo \in ConnectionTokens
    /\ agent = Undefined
    /\ ws = 1
    /\ sockets = << OpenSocket >>
    /\ est = Idle
    /\ estResolved = TRUE
    /\ subs = << >>
    /\ outbound = NoCommand
    /\ sentI = << >>
    /\ last = Op("startDone", "resolved", "")
    /\ cbLog = << >>

CodecNext ==
    \E hvac \in Registered \cup {CallerHVAC}, c \in Commands,
       now \in Clock, accepted \in BOOLEAN :
        sendCommand(hvac, c[1], c[2], now, accepted)

SpecCodec == InitCodec /\ [][CodecNext]_vars

(***************************************************************************)
(* The handshake: establishConnection and the subscribeToHVACs calls made  *)
(* before, during and after it, up to the opening of the socket.  The      *)
(* caller subscribes with an address the account does not have.            *)
(***************************************************************************)
ChannelRequests == { {"m3"} }

HandshakeNext ==
    \/ \E a \in Agents : establishConnection(a)
    \/ \E outcome \in Cookies \cup {"noCookies", "fetchFails"} :
            loginDone(outcome)
    \/ \E outcome \in SessionIDs \cup {"throws"} : sessionDone(outcome)
    \/ \E outcome \in ConnectionTokens \cup {"throws"} :
            negotiateDone(outcome)
    \/ \E macAddresses \in ChannelRequests : subscribeToHVACs(macAddresses)
    \/ \E i \in DOMAIN subs, outcome \in {"ok", "throws"} :
            credentialsDone(i, outcome)
    \/ \E i \in DOMAIN subs, deviceInfo \in InfoResponses :
            deviceInfoDone(i, deviceInfo)
    \/ \E s \in DOMAIN sockets : wsOpen(s)

SpecHandshake == Init /\ [][HandshakeNext]_vars

(***************************************************************************)
(* The streaming channel: the sockets of an established connection, their  *)
(* events, the keep-alive and the commands sent over them.                 *)
(***************************************************************************)
ChannelNext ==
    \/ \E macAddresses \in ChannelRequests : subscribeToHVACs(macAddresses)
    \/ \E i \in DOMAIN subs, outcome \in {"ok", "throws"} :
            credentialsDone(i, outcome)
    \/ \E i \in DOMAIN subs, deviceInfo \in InfoResponses :
            deviceInfoDone(i, deviceInfo)
    \/ \E s \in DOMAIN sockets : wsOpen(s)
    \/ \E s \in DOMAIN sockets, outcome \in {"ok", "throws"} :
            startDone(s, outcome)
    \/ \E s \in DOMAIN sockets, outcome \in {"ok", "throws"} :
            pingTick(s, outcome)
    \/ \E s \in DOMAIN sockets : wsError(s)
    \/ \E s \in DOMAIN sockets : wsClose(s)
    \/ \E hvac \in Registered \cup {CallerHVAC}, c \in SomeCommands,
          now \in Clock, accepted \in BOOLEAN :
            sendCommand(hvac, c[1], c[2], now, accepted)

SpecChannel == InitEstablished /\ [][ChannelNext]_vars

\* The environment is fair: the service answers every request of a
\* subscribeToHVACs call, and the transport ends every connection attempt
\* with an 'open' or an 'error' event.
ConnectionAttemptEnds(s) ==
    /\ s \in DOMAIN sockets
    /\ sockets[s].readyState = "CONNECTING"
    /\ (wsOpen(s) \/ wsError(s))

ServiceAnswers ==
    \/ \E i \in DOMAIN subs, outcome \in {"ok", "throws"} :
            credentialsDone(i, outcome)
    \/ \E i \in DOMAIN subs, deviceInfo \in InfoResponses :
            deviceInfoDone(i, deviceInfo)

SpecChannelFair ==
    /\ SpecChannel
    /\ WF_vars(ServiceAnswers)
    /\ \A s \in 1..MaxSockets : WF_vars(ConnectionAttemptEnds(s))

(***************************************************************************)
(* Frames that carry more than one method record or more than one payload, *)
(* delivered to a connection with or without an established session.       *)
(***************************************************************************)
MultiFrames ==
    { [ M |-> << [ M |-> "actionReceivedAC",
                   A |-> << ActionPayload("m1") >> ],
                 [ M |-> "HeartBeatPerformed",
                   A |-> << HeartBeatPayload("m1") >> ] >> ],
      [ M |-> << [ M |-> "HeartBeatPerformed",
                   A |-> << HeartBeatPayload("m3"),
                            HeartBeatPayload("m1") >> ] >> ],
      [ M |-> << [ M |-> "actionReceivedAC",
                   A |-> << ActionPayload("m1"), ActionPayload("m2") >> ],
                 [ M |-> "actionReceivedAC",
                   A |-> << ActionPayload("m2") >> ] >> ],
      [ M |-> << [ M |-> "keepAlive",
                   A |-> << HeartBeatPayload("m1") >> ],
                 [ M |-> "HeartBeatPerformed",
                   A |-> << HeartBeatPayload("m1") >> ] >> ] }

FramesNext ==
    \/ \E macAddresses \in Requests : subscribeToHVACs(macAddresses)
    \/ \E i \in DOMAIN subs, outcome \in {"ok", "throws"} :
            credentialsDone(i, outcome)
    \/ \E i \in DOMAIN subs, deviceInfo \in InfoResponses :
            deviceInfoDone(i, deviceInfo)
    \/ \E s \in DOMAIN sockets : wsOpen(s)
    \/ \E s \in DOMAIN sockets, data \in MultiFrames : wsMessage(s, data)

SpecFrames == (Init \/ InitEstablished) /\ [][FramesNext]_vars

(***************************************************************************)
(* Repeated establishConnection calls against a service that tells its     *)
(* logins apart: every login answers with a cookie other than the stored   *)
(* one, and /home/index and /signalr/negotiate, which are requested with   *)
(* the stored cookie, answer with the session and the connection token of  *)
(* that cookie.  subscribeToHVACs and sendCommand run before, between and  *)
(* during the calls.                                                       *)
(***************************************************************************)
SessionCookies == {"cookie1", "cookie2"}

SessionOf(cookie) == IF cookie = "cookie1" THEN "session1" ELSE "session2"

TokenOf(cookie) == IF cookie = "cookie1" THEN "token1" ELSE "token2"

SessionNext ==
    \/ \E a \in Agents : establishConnection(a)
    \/ \E outcome \in (SessionCookies \ {applicationCookies})
                        \cup {"fetchFails"} :
            loginDone(outcome)
    \/ \E outcome \in {SessionOf(applicationCookies), "throws"} :
            sessionDone(outcome)
    \/ \E outcome \in {TokenOf(applicationCookies), "throws"} :
            negotiateDone(outcome)
    \/ \E macAddresses \in ChannelRequests : subscribeToHVACs(macAddresses)
    \/ \E i \in DOMAIN subs : credentialsDone(i, "ok")
    \/ \E i \in DOMAIN subs, deviceInfo \in InfoResponses :
            deviceInfoDone(i, deviceInfo)
    \/ \E s \in DOMAIN sockets : wsOpen(s)
    \/ \E c \in SomeCommands, now \in Clock :
            sendCommand(CallerHVAC, c[1], c[2], now, TRUE)

SpecSession == Init /\ [][SessionNext]_vars

(***************************************************************************)
(* subscribeToHVACs on a connection whose socket of an earlier              *)
(* subscribeToHVACs call is open, its keep-alive interval running: the new  *)
(* calls, the events of every socket and the frames arriving on any open    *)
(* socket.                                                                 *)
(***************************************************************************)
SocketRequests == { {"m1", "m2"} }

InitSockets ==
    /\ hvacs = extractHVACs(<< >>, << SnapshotEntry("m1"),
                                      SnapshotEntry("m2") >>, {"m1", "m2"})
    /\ commandCount = 0
    /\ applicationCookies \in Cookies
    /\ sessionID \in SessionIDs
    /\ socketInfo \in ConnectionTokens
    /\ agent = Undefined
    /\ ws = 1
    /\ sockets = << OpenSocket >>
    /\ est = Idle
    /\ estResolved = TRUE
    /\ subs = << >>
    /\ outbound = NoCommand
    /\ sentI = << >>
    /\ last = Op("startDone", "resolved", "")
    /\ cbLog = << >>

SocketsNext ==
    \/ \E macAddresses \in SocketRequests : subscribeToHVACs(macAddresses)
    \/ \E i \in DOMAIN subs : credentialsDone(i, "ok")
    \/ \E i \in DOMAIN subs, deviceInfo \in InfoResponses :
            deviceInfoDone(i, deviceInfo)
    \/ \E s \in DOMAIN sockets : wsOpen(s)
    \/ \E s \in DOMAIN sockets : startDone(s, "ok")
    \/ \E s \in DOMAIN sockets : pingTick(s, "ok")
    \/ \E s \in DOMAIN sockets : wsError(s)
    \/ \E s \in DOMAIN sockets : wsClose(s)
    \/ \E s \in DOMAIN sockets, data \in SomeFrames : wsMessage(s, data)

SpecSockets == InitSockets /\ [][SocketsNext]_vars

(***************************************************************************)
(* Claims                                                                  *)
(***************************************************************************)
\* the step is the 'message' listener run on the frame `data`
Processed(data) == \E s \in DOMAIN sockets : wsMessage(s, data)

ActionFrame(mac) ==
    [ M |-> << [ M |-> "actionReceivedAC", A |-> << ActionPayload(mac) >> ] >> ]
HeartBeatFrame(mac) ==
    [ M |-> << [ M |-> "HeartBeatPerformed",
                 A |-> << HeartBeatPayload(mac) >> ] >> ]

Holds(registry, mac) ==
    \E i \in DOMAIN registry : registry[i].macAddress = mac

\* C1: the commands built since the latest subscribeToHVACs call carry
\* I = 0, 1, 2, ... in the order they were built, and the counter changes
\* only in a sendCommand step (by exactly 1, after the old value went into
\* the command) or in a subscribeToHVACs step (to 0): no handshake step,
\* inbound frame or socket event changes it.
C1_SequenceNumbers ==
    [][ /\ \A k \in DOMAIN sentI' : sentI'[k] = k - 1
        /\ commandCount' # commandCount =>
              \/ /\ last'.op = "subscribeToHVACs"
                 /\ commandCount' = 0
              \/ /\ last'.op = "sendCommand"
                 /\ outbound'.built
                 /\ outbound'.payload.I = commandCount
                 /\ commandCount' = commandCount + 1
        /\ commandCount' = 0 /\ commandCount # 0 =>
              last'.op = "subscribeToHVACs" ]_vars

\* two commands were built, numbered 0 and 1, after a subscribeToHVACs call
\* that was made on a connection which already had a socket
C1_Witness ==
    /\ sentI = << 0, 1 >>
    /\ last.op = "sendCommand"
    /\ ws # NoSocket
    /\ Len(subs) > 0

\* C2: the registry never holds two Devices with the same hardware address.
C2_UniqueAddresses ==
    \A i, j \in DOMAIN hvacs :
        i # j => hvacs[i].macAddress # hvacs[j].macAddress

\* C3: processing an actionReceivedAC frame whose address is in the registry
\* sets power, temperature, mode and fan speed of the Devices with that
\* address to the payload's values, leaves their room temperature and
\* identity alone, and leaves every Device with another address unchanged.
C3_ActionReceived ==
    [][ \A mac \in Macs :
          Processed(ActionFrame(mac)) /\ Holds(hvacs, mac) =>
            /\ DOMAIN hvacs' = DOMAIN hvacs
            /\ \A i \in DOMAIN hvacs :
                 IF hvacs[i].macAddress = mac
                 THEN /\ hvacs'[i].power = ActionPayload(mac).power
                      /\ hvacs'[i].temperature = ActionPayload(mac).temp
                      /\ hvacs'[i].mode = ActionPayload(mac).mode
                      /\ hvacs'[i].fanSpeed = ActionPayload(mac).fanspeed
                      /\ hvacs'[i].roomTemperature = hvacs[i].roomTemperature
                      /\ hvacs'[i].macAddress = mac
                 ELSE hvacs'[i] = hvacs[i] ]_vars

\* an actionReceivedAC frame for m1 was processed with m1 and m2 registered:
\* m1 shows the payload's state and its seeded room temperature, m2 its seed
C3_Witness ==
    /\ last.op = "wsMessage"
    /\ cbLog = << Callback("command", ActionPayload("m1")) >>
    /\ \E i, j \in DOMAIN hvacs :
         /\ hvacs[i].macAddress = "m1"
         /\ hvacs[i].power = "off"
         /\ hvacs[i].fanSpeed = "low"
         /\ hvacs[i].roomTemperature = 72
         /\ hvacs[j] = seedHVAC(SnapshotEntry("m2"))

\* C4: processing a HeartBeatPerformed frame changes nothing in the registry
\* but the room temperature of the Devices with the payload's address, which
\* becomes the payload's roomTemperature.
C4_HeartBeat ==
    [][ \A mac \in Macs :
          Processed(HeartBeatFrame(mac)) =>
            /\ DOMAIN hvacs' = DOMAIN hvacs
            /\ \A i \in DOMAIN hvacs :
                 /\ hvacs'[i].roomTemperature =
                      IF hvacs[i].macAddress = mac
                      THEN HeartBeatPayload(mac).roomTemperature
                      ELSE hvacs[i].roomTemperature
                 /\ [ hvacs'[i] EXCEPT !.roomTemperature = 0 ] =
                      [ hvacs[i] EXCEPT !.roomTemperature = 0 ] ]_vars

\* a HeartBeatPerformed frame for m1 was processed with m1 and m2 registered
C4_Witness ==
    /\ last.op = "wsMessage"
    /\ cbLog = << Callback("temperature", 66) >>
    /\ \E i, j \in DOMAIN hvacs :
         /\ hvacs[i].macAddress = "m1"
         /\ hvacs[i].roomTemperature = 66
         /\ hvacs[i].temperature = 70
         /\ hvacs[j] = seedHVAC(SnapshotEntry("m2"))

\* C5: an actionReceivedAC or HeartBeatPerformed frame whose address matches
\* no Device of the registry is processed without throwing and without
\* changing any Device.
C5_UnknownAddress ==
    [][ \A mac \in Macs :
          (Processed(ActionFrame(mac)) \/ Processed(HeartBeatFrame(mac)))
            /\ ~Holds(hvacs, mac) =>
              /\ hvacs' = hvacs
              /\ last'.result = "returned" ]_vars

\* a frame for m3 was processed while the registry held Devices
C5_Witness ==
    /\ last.op = "wsMessage"
    /\ cbLog = << Callback("command", ActionPayload("m3")) >>
    /\ hvacs # << >>
    /\ ~Holds(hvacs, "m3")

\* the Device `hvac` is the one built from the snapshot entry `device`
Seeded(hvac, device) ==
    /\ hvac.macAddress = device.macAddress
    /\ hvac.deviceName = device.deviceName
    /\ hvac.applianceID = device.applianceID
    /\ hvac.fwVersion = device.fwVersion
    /\ hvac.power = device.latestAction.power
    /\ hvac.temperature = device.latestAction.temp
    /\ hvac.mode = device.latestAction.mode
    /\ hvac.fanSpeed = device.latestAction.fanspeed
    /\ hvac.roomTemperature = device.latEnv.temp

\* the step is the arrival of the snapshot `deviceInfo`, a device list, for
\* the subscribeToHVACs call subs[i]
SnapshotArrives(i, deviceInfo) ==
    /\ deviceInfoDone(i, deviceInfo)
    /\ deviceInfo.kind = "json"
    /\ deviceInfo.error = ""
    /\ deviceInfo.hasData

\* C6: when the snapshot of a subscribeToHVACs(addresses) call arrives, the
\* registry afterwards holds one Device for each snapshot entry whose address
\* is in `addresses`, seeded from that entry, and nothing else: no Device for
\* an address that was not requested or is not in the snapshot, and no Device
\* of an earlier call.
C6_SubscribedRegistry ==
    [][ \A i \in DOMAIN subs, deviceInfo \in InfoResponses :
          SnapshotArrives(i, deviceInfo) =>
            /\ \A k \in DOMAIN hvacs' :
                 /\ hvacs'[k].macAddress \in subs[i].macAddresses
                 /\ \E e \in DOMAIN deviceInfo.listDevices :
                      Seeded(hvacs'[k], deviceInfo.listDevices[e])
            /\ \A e \in DOMAIN deviceInfo.listDevices :
                 Cardinality({ k \in DOMAIN hvacs' :
                     hvacs'[k].macAddress =
                         deviceInfo.listDevices[e].macAddress })
                   = IF deviceInfo.listDevices[e].macAddress
                            \in subs[i].macAddresses
                     THEN 1 ELSE 0 ]_vars

\* the step is the arrival of a snapshot that reports the error
\* deviceInfo.error, for the subscribeToHVACs call subs[i]
SnapshotFails(i, deviceInfo) ==
    /\ deviceInfoDone(i, deviceInfo)
    /\ deviceInfo.kind = "json"
    /\ deviceInfo.error # ""

ActionRecord == outbound.payload.A[1]
StateRecord == outbound.payload.A[2]

\* C8: in the command built for a Device, a field and a new value, the
\* action record names the field in performedAction and the value in
\* performedActionValue, and each of the slots mode, temp, power, fanspeed
\* other than the field's own, and macAddress and applianceID, shows the
\* Device's state before the command.
C8_ActionRecord ==
    outbound.built =>
        /\ ActionRecord.performedAction = outbound.performedAction
        /\ ActionRecord.performedActionValue = outbound.performedActionValue
        /\ outbound.performedAction # "mode" =>
               ActionRecord.mode = outbound.hvac.mode
        /\ outbound.performedAction # "temp" =>
               ActionRecord.temp = outbound.hvac.temperature
        /\ outbound.performedAction # "power" =>
               ActionRecord.power = outbound.hvac.power
        /\ outbound.performedAction # "fanspeed" =>
               ActionRecord.fanspeed = outbound.hvac.fanSpeed
        /\ ActionRecord.macAddress = outbound.hvac.macAddress
        /\ ActionRecord.applianceID = outbound.hvac.applianceID

\* a command that sets the temperature of a registered Device to a value it
\* does not have was built
C8_Witness ==
    /\ outbound.built
    /\ outbound.hvac \in Registered
    /\ outbound.performedAction = "temp"
    /\ ActionRecord.performedActionValue = Val(70)
    /\ outbound.hvac.temperature = 75
    /\ ActionRecord.power = outbound.hvac.power

\* the value the slot of `field` must carry when the requested field's new
\* value goes into its own slot and every other slot keeps `current`
Overridden(field, current) ==
    IF outbound.performedAction = field
    THEN outbound.performedActionValue = Val(current)
    ELSE TRUE

C10_HandshakeOrder ==
    [][ /\ est'.pc = "session" /\ est.pc # "session" =>
              /\ est.pc = "login"
              /\ last' = Op("loginDone", "pending", "")
              /\ applicationCookies' \in Cookies
        /\ est'.pc = "negotiate" /\ est.pc # "negotiate" =>
              /\ est.pc = "session"
              /\ last' = Op("sessionDone", "pending", "")
              /\ sessionID' \in SessionIDs
              /\ applicationCookies' \in Cookies
        /\ Len(sockets') > Len(sockets) =>
              /\ estResolved
              /\ socketInfo \in ConnectionTokens
              /\ sessionID \in SessionIDs
              /\ sockets'[Len(sockets')].connectionToken = socketInfo
        /\ ~estResolved' =>
              /\ sockets' = << >>
              /\ ws' = NoSocket ]_vars

\* a subscribeToHVACs call has just created the socket, with the token the
\* handshake negotiated
C10_Witness ==
    /\ last = Op("deviceInfoDone", "pending", "")
    /\ estResolved
    /\ Len(sockets) = 1
    /\ sockets[1].connectionToken \in ConnectionTokens
    /\ ws = 1

\* the step is a handshake step of establishConnection that fails
HandshakeStepFails ==
    \/ loginDone("noCookies")
    \/ loginDone("fetchFails")
    \/ sessionDone("throws")
    \/ negotiateDone("throws")

\* C11: a handshake step that fails rejects establishConnection and ends
\* the call: what the earlier steps stored stays, nothing else is stored and
\* the call is not marked resolved.  A handshake step is started only by the
\* success of the step before it, and the login only by a new
\* establishConnection call of the caller: nothing follows a failed step
\* and no step is run again.
C11_HandshakeFailure ==
    [][ /\ HandshakeStepFails =>
              /\ last'.result = "rejected"
              /\ est'.pc = "idle"
              /\ applicationCookies' = applicationCookies
              /\ sessionID' = sessionID
              /\ socketInfo' = socketInfo
              /\ estResolved' = estResolved
        /\ est'.pc # est.pc /\ est'.pc # "idle" =>
              \/ /\ est.pc = "idle"
                 /\ est'.pc = "login"
                 /\ last'.op = "establishConnection"
              \/ /\ est.pc = "login"
                 /\ est'.pc = "session"
                 /\ last' = Op("loginDone", "pending", "")
              \/ /\ est.pc = "session"
                 /\ est'.pc = "negotiate"
                 /\ last' = Op("sessionDone", "pending", "")
        /\ est.pc # "idle" /\ est'.pc = est.pc =>
              last'.op \notin { "loginDone", "sessionDone", "negotiateDone",
                                "establishConnection" } ]_vars

\* the session resolution of a first establishConnection call has just
\* failed: the call is over, the cookies of its login are stored, and no
\* negotiation has taken place
C11_Witness ==
    /\ last = Op("sessionDone", "rejected", "TypeError")
    /\ est.pc = "idle"
    /\ applicationCookies \in Cookies
    /\ sessionID = Undefined
    /\ socketInfo = Undefined
    /\ ~estResolved

\* C12: a login whose response carries no Set-Cookie header rejects
\* establishConnection with an AuthenticationError.
C12_NoCookiesIsAuthenticationError ==
    [][ loginDone("noCookies") =>
            last' = Op("loginDone", "rejected", "AuthenticationError") ]_vars

\* C13: the 'close' and the 'error' event of a socket each invoke the
\* error callback, and neither creates a socket, starts a subscription or
\* replaces #ws; a socket is created only by the step that completes a
\* subscribeToHVACs call of the caller, and such a call is started only by
\* the caller.
C13_NoReconnect ==
    [][ /\ \A s \in DOMAIN sockets :
              wsClose(s) =>
                /\ cbLog' = << Callback("error", "Connection Closed.") >>
                /\ Len(sockets') = Len(sockets)
                /\ subs' = subs
                /\ ws' = ws
        /\ \A s \in DOMAIN sockets :
              wsError(s) =>
                /\ cbLog' = << Callback("error", "TransportError") >>
                /\ Len(sockets') = Len(sockets)
                /\ subs' = subs
                /\ ws' = ws
        /\ Len(sockets') > Len(sockets) =>
              /\ last' = Op("deviceInfoDone", "pending", "")
              /\ Len(subs') < Len(subs)
        /\ Len(subs') > Len(subs) => last'.op = "subscribeToHVACs" ]_vars

\* a socket that had an error has just closed, and the error callback was
\* invoked for the close
C13_Witness ==
    /\ last.op = "wsClose"
    /\ cbLog = << Callback("error", "Connection Closed.") >>
    /\ \E s \in DOMAIN sockets :
         /\ sockets[s].readyState = "CLOSED"
         /\ sockets[s].promise = "pending"
    /\ ws # NoSocket

C15_SubscribeSettles ==
    \A s \in 1..MaxSockets :
        (s \in DOMAIN sockets /\ sockets[s].promise = "pending")
            ~> (s \in DOMAIN sockets
                  /\ sockets[s].promise \in {"resolved", "rejected"})

\* C16: no keep-alive ping is issued for a socket that is closing or
\* closed.
C16_NoPingAfterClose ==
    [][ \A s \in DOMAIN sockets, outcome \in {"ok", "throws"} :
          pingTick(s, outcome) =>
            sockets[s].readyState \notin {"CLOSING", "CLOSED"} ]_vars

\* C17: a keep-alive ping that fails invokes the error callback with the
\* failure and changes nothing else: the socket keeps its state and its
\* timer, so the interval fires again, and the registry, the counter, the
\* subscriptions and #ws are as before.
C17_FailedPing ==
    [][ \A s \in DOMAIN sockets :
          pingTick(s, "throws") =>
            /\ cbLog' = << Callback("error", "FetchError") >>
            /\ sockets' = sockets
            /\ sockets'[s].timer
            /\ hvacs' = hvacs
            /\ commandCount' = commandCount
            /\ subs' = subs
            /\ ws' = ws ]_vars

\* a ping on an open socket has just failed: the error callback was invoked
\* and the socket is still open with its timer running
C17_Witness ==
    /\ last = Op("pingTick", "returned", "FetchError")
    /\ cbLog = << Callback("error", "FetchError") >>
    /\ \E s \in DOMAIN sockets :
         /\ sockets[s].readyState = "OPEN"
         /\ sockets[s].timer

\* C18: each failure after the socket has opened (the 'start' call fails, a
\* ping fails, the socket closes, the socket has an error) invokes the error
\* callback, and none ends as a rejection nobody handles.
C18_FailuresReachCallback ==
    [][ \A s \in DOMAIN sockets :
          /\ startDone(s, "throws") =>
                /\ cbLog' = << Callback("error", "FetchError") >>
                /\ last'.result # "unhandledRejection"
          /\ pingTick(s, "throws") =>
                cbLog' = << Callback("error", "FetchError") >>
          /\ wsClose(s) =>
                cbLog' = << Callback("error", "Connection Closed.") >>
          /\ wsError(s) =>
                cbLog' = << Callback("error", "TransportError") >> ]_vars

\* the frame has not the actionable shape, or has a null payload, or names
\* a method other than the two the handler knows
Ignorable(data) ==
    \/ ~Actionable(data)
    \/ data.M[1].A[1] = Null
    \/ data.M[1].M \notin {"actionReceivedAC", "HeartBeatPerformed"}

\* C19: a frame without the actionable shape, with a null payload or with
\* an unknown method is processed without raising an error, without changing
\* a Device and without invoking a callback.
C19_IgnoredFrames ==
    [][ \A data \in Frames :
          Processed(data) /\ Ignorable(data) =>
            /\ last'.result = "returned"
            /\ hvacs' = hvacs
            /\ cbLog' = << >> ]_vars

\* C20: a sendCommand step, whatever its outcome, leaves the registry as it
\* is.  The registry changes only when a subscribeToHVACs call empties it,
\* when the snapshot of a call adds Devices to it (the Devices it holds stay
\* as they are), or when an inbound frame is processed, which changes only
\* Devices with the address the frame names.
C20_DeviceStateChanges ==
    [][ /\ last'.op = "sendCommand" => hvacs' = hvacs
        /\ hvacs' # hvacs =>
              \/ /\ last'.op = "subscribeToHVACs"
                 /\ hvacs' = << >>
              \/ /\ last'.op = "deviceInfoDone"
                 /\ Len(hvacs') > Len(hvacs)
                 /\ SubSeq(hvacs', 1, Len(hvacs)) = hvacs
              \/ /\ last'.op = "wsMessage"
                 /\ DOMAIN hvacs' = DOMAIN hvacs
                 /\ \E data \in Frames :
                      /\ Processed(data)
                      /\ \A i \in DOMAIN hvacs :
                           hvacs'[i] # hvacs[i] =>
                             hvacs[i].macAddress = data.M[1].A[1].macAddress
        ]_vars

\* a command to power on a registered Device that is off has just been
\* built and accepted by the transport, and the Device is still off
C20_Witness ==
    /\ last = Op("sendCommand", "resolved", "")
    /\ outbound.built
    /\ outbound.performedAction = "power"
    /\ outbound.performedActionValue = Val("on")
    /\ outbound.hvac.power = "off"
    /\ \E i \in DOMAIN hvacs : hvacs[i] = outbound.hvac

\* C21: the agent the caller passes to establishConnection becomes #agent,
\* the agent every HTTP request and the socket are made with.
C21_AgentUsed ==
    [][ establishConnection("proxy") => agent' = "proxy" ]_vars

\* C22: processing a frame of actionable shape invokes exactly one
\* callback: the command callback with the payload for 'actionReceivedAC',
\* the temperature callback with the payload's roomTemperature for
\* 'HeartBeatPerformed', whether or not a Device has the payload's address,
\* and the handler returns.
C22_CallbackOnce ==
    [][ \A data \in Frames :
          Processed(data) /\ Actionable(data) =>
            /\ data.M[1].M = "actionReceivedAC" =>
                  /\ cbLog' = << Callback("command", data.M[1].A[1]) >>
                  /\ last'.result = "returned"
            /\ data.M[1].M = "HeartBeatPerformed" =>
                  /\ cbLog' = << Callback("temperature",
                                          data.M[1].A[1].roomTemperature) >>
                  /\ last'.result = "returned" ]_vars

\* C23: of a frame with several method records or several payloads only
\* the first record's first payload takes effect: the one callback invoked
\* is that record's callback with that payload, a Device with another
\* address is left as it was, and the Device with that address changes
\* only in the fields the first record's method sets (an
\* 'actionReceivedAC' leaves its room temperature alone although a later
\* 'HeartBeatPerformed' record names it; a 'HeartBeatPerformed' leaves its
\* power, temperature, mode and fan speed alone); when the first record's
\* method is neither of the two, no Device changes and no callback runs,
\* whatever the later records are.
C23_FirstRecordOnly ==
    [][ \A data \in MultiFrames :
          Processed(data) =>
            LET record == data.M[1]
                payload == record.A[1]
            IN  /\ Len(hvacs') = Len(hvacs)
                /\ \A i \in DOMAIN hvacs :
                      /\ hvacs[i].macAddress # payload.macAddress =>
                            hvacs'[i] = hvacs[i]
                      /\ record.M = "actionReceivedAC" =>
                            /\ hvacs'[i].roomTemperature =
                                    hvacs[i].roomTemperature
                            /\ hvacs[i].macAddress = payload.macAddress =>
                                  /\ hvacs'[i].power = payload.power
                                  /\ hvacs'[i].temperature = payload.temp
                                  /\ hvacs'[i].mode = payload.mode
                                  /\ hvacs'[i].fanSpeed = payload.fanspeed
                      /\ record.M = "HeartBeatPerformed" =>
                            /\ hvacs'[i].power = hvacs[i].power
                            /\ hvacs'[i].temperature = hvacs[i].temperature
                            /\ hvacs'[i].mode = hvacs[i].mode
                            /\ hvacs'[i].fanSpeed = hvacs[i].fanSpeed
                            /\ hvacs[i].macAddress = payload.macAddress =>
                                  hvacs'[i].roomTemperature =
                                      payload.roomTemperature
                /\ record.M = "actionReceivedAC" =>
                      cbLog' = << Callback("command", payload) >>
                /\ record.M = "HeartBeatPerformed" =>
                      cbLog' = << Callback("temperature",
                                           payload.roomTemperature) >>
                /\ record.M \notin {"actionReceivedAC", "HeartBeatPerformed"}
                      => hvacs' = hvacs /\ cbLog' = << >> ]_vars

\* a frame of two records for "m1" was processed with "m1" and "m2"
\* registered: "m1" has the action's state and its snapshot room
\* temperature, "m2" its snapshot state, and one command callback ran
C23_Witness ==
    /\ last = Op("wsMessage", "returned", "")
    /\ cbLog = << Callback("command", ActionPayload("m1")) >>
    /\ Len(hvacs) = 2
    /\ hvacs[1].macAddress = "m1"
    /\ hvacs[1].mode = "heat"
    /\ hvacs[1].roomTemperature = 72
    /\ hvacs[2].macAddress = "m2"
    /\ hvacs[2].mode = "auto"
    /\ hvacs[2].roomTemperature = 68

\* the cookie and the connection token a socket was opened with belong to
\* one establishConnection call
SocketOfOneCall(s) ==
    sockets[s].connectionToken = TokenOf(sockets[s].cookie)

\* the session id in the command just encoded and the cookie and token of
\* the socket it is sent on belong to one establishConnection call
CommandOfOneCall ==
    /\ outbound.payload.A[1].mid = Val(SessionOf(sockets[ws].cookie))
    /\ SocketOfOneCall(ws)

\* nothing is stored, or the stored cookie, session id and connection
\* token belong to one establishConnection call
StoredOfOneCall ==
    \/ /\ applicationCookies = Undefined
       /\ sessionID = Undefined
       /\ socketInfo = Undefined
    \/ /\ sessionID = SessionOf(applicationCookies)
       /\ socketInfo = TokenOf(applicationCookies)

\* C24: every socket was opened with a cookie and a connection token of
\* one establishConnection call, every command is encoded with the session
\* id of the call its socket was opened with, and while no
\* establishConnection call is running the stored session is that of one
\* call (a failed call has left the stored one as it was).
C24_OneSession ==
    /\ \A s \in DOMAIN sockets : SocketOfOneCall(s)
    /\ outbound.built => CommandOfOneCall
    /\ est.pc = "idle" => StoredOfOneCall

\* an additional socket was opened in this step
SocketAdded == Len(sockets') = Len(sockets) + 1

\* C25: no socket is ever removed; a socket leaves CONNECTING or OPEN for
\* CLOSING or CLOSED only in its own 'error' or 'close' event; a keep-alive
\* interval once set stays set; a subscribeToHVACs call that reaches
\* #connect adds one socket, makes it #ws and leaves every earlier socket
\* exactly as it was; and a frame arriving on the earlier socket 1 while
\* #ws is the later socket 2 changes the Device of the current registry
\* that has the frame's address and invokes the callback.
C25_SocketsAccumulate ==
    [][ /\ Len(sockets') >= Len(sockets)
        /\ \A s \in DOMAIN sockets :
              /\ sockets'[s].readyState # sockets[s].readyState
                 /\ sockets'[s].readyState \in {"CLOSING", "CLOSED"}
                    => wsError(s) \/ wsClose(s)
              /\ sockets[s].timer => sockets'[s].timer
        /\ Len(sockets') # Len(sockets) =>
              /\ SocketAdded
              /\ SubSeq(sockets', 1, Len(sockets)) = sockets
              /\ ws' = Len(sockets')
              /\ sockets'[ws'].readyState = "CONNECTING"
              /\ \E i \in DOMAIN subs, deviceInfo \in InfoResponses :
                    deviceInfoDone(i, deviceInfo)
        /\ ws = 2 /\ wsMessage(1, ActionFrame("m1")) =>
              /\ cbLog' = << Callback("command", ActionPayload("m1")) >>
              /\ \A i \in DOMAIN hvacs :
                    hvacs[i].macAddress = "m1" =>
                      /\ hvacs'[i].power = "off"
                      /\ hvacs'[i].temperature = 68
                      /\ hvacs'[i].mode = "heat"
                      /\ hvacs'[i].fanSpeed = "low" ]_vars

\* two sockets are open, each with its keep-alive interval running, #ws is
\* the later one, and a frame for "m1" has just changed the Device of the
\* registry the later subscribeToHVACs call filled
C25_Witness ==
    /\ Len(sockets) = 2
    /\ sockets[1].earlier /\ ~sockets[2].earlier
    /\ \A s \in {1, 2} : sockets[s].readyState = "OPEN" /\ sockets[s].timer
    /\ ws = 2
    /\ last = Op("wsMessage", "returned", "")
    /\ cbLog = << Callback("command", ActionPayload("m1")) >>
    /\ Len(hvacs) = 2
    /\ hvacs[1].macAddress = "m1"
    /\ hvacs[1].mode = "heat"

=============================================================================
